---- MODULE Spec2Model ----
(***************************************************************************)
(* Model of the JewelSteps WPPConnect server (src/index.js, lines 321-824): *)
(* the session supervisor (initializeWhatsApp and the adapter's event      *)
(* handlers), the liveness interval and the POST /send-message gateway.    *)
(*                                                                         *)
(* Node.js runs every callback to its next await on one event loop, so     *)
(* each action below is one such run: a handler from its entry to its      *)
(* first await (or its return), or the continuation after an await.        *)
(***************************************************************************)
EXTENDS Integers, Sequences, FiniteSets, TLC

(* ------------------------------ bounds --------------------------------- *)
\* Adapter instances wppconnect.create may return during one run.
MaxInstances == 2
\* initializeWhatsApp calls that may be pending (awaiting create, or waiting
\* in a retry timer) when a disconnect schedules one more.
MaxPending == 2
\* checkConnection probes that may be awaiting their result.
MaxProbes == 1
\* client.sendText calls recorded in the outbox.
MaxSends == 2
\* Reconnect attempts followed while the gateway is exercised.
MaxAttemptsFollowed == 1
\* Inbound message events delivered to onMessage.
MaxEvents == 2

(* ------------------------- program constants --------------------------- *)
MAX_RECONNECT_ATTEMPTS == 10
BaseDelayMs == 5000
MaxDelayMs == 30000

\* let client = null
NoClient == 0

VARIABLES
    client,            \* let client = null: the adapter instance in use (0 = null)
    isConnected,       \* let isConnected = false
    reconnectAttempts, \* let reconnectAttempts = 0
    chromeExists,      \* fs.existsSync(CHROME_PATH)
    started,           \* the app.listen callback has run
    inFlight,          \* initializeWhatsApp calls awaiting wppconnect.create
    retryTimers,       \* pending setTimeout(() => initializeWhatsApp(), delay)
    lastDelay,         \* delay (ms) of the retry timer scheduled last, 0 if none
    handlers,          \* adapter instances whose event handlers are registered
    livenessTimers,    \* setInterval liveness checks running
    probes,            \* client.checkConnection() calls awaiting their result
    lastState,         \* the state the adapter signalled last ("NONE" before any)
    terminated,        \* a DISCONNECTED was handled with the attempts exhausted
    syncKey,           \* const SYNC_KEY = process.env.SYNC_KEY || ''
    resp,              \* the responses written to the request handled last
    pendingSend,       \* formattedPhone of the request awaiting client.sendText
    outbox,            \* the client.sendText calls made, in order
    emitted,           \* inbound message events handed to onMessage so far
    posts,             \* the events whose axios.post was issued, in order
    lastPayload,       \* the body of the axios.post issued last
    awaiting,          \* the events whose axios.post has not settled
    forwarded,         \* the events sendToCRM returned true for
    failures           \* the events logged as "Failed to forward"

sessionVars == <<client, isConnected, reconnectAttempts, chromeExists, started,
                 inFlight, retryTimers, lastDelay, handlers, livenessTimers,
                 probes, lastState, terminated>>

gatewayVars == <<syncKey, resp, pendingSend, outbox>>

relayVars == <<emitted, posts, lastPayload, awaiting, forwarded, failures>>

vars == <<client, isConnected, reconnectAttempts, chromeExists, started,
          inFlight, retryTimers, lastDelay, handlers, livenessTimers,
          probes, lastState, terminated, syncKey, resp, pendingSend, outbox,
          emitted, posts, lastPayload, awaiting, forwarded, failures>>

Min(a, b) == IF a < b THEN a ELSE b

\* The states the adapter reports through onStateChange; OPENING stands for
\* every state the handler has no branch for.
AdapterStates == {"CONNECTED", "DISCONNECTED", "CONFLICT", "UNPAIRED", "OPENING"}

\* Variant: the delay grows with the counter without a ceiling.
RetryDelayUncapped(attempts) == attempts * BaseDelayMs

\* Math.min(reconnectAttempts * 5000, 30000)
RetryDelay(attempts) == Min(attempts * BaseDelayMs, MaxDelayMs)

(* ------------------------ JavaScript values ---------------------------- *)
\* A JSON field of the request body: absent, a string (its characters) or a
\* number (its decimal digits).
JsUndefined == [kind |-> "undefined", val |-> <<>>]
JsString(chars) == [kind |-> "string", val |-> chars]
JsNumber(digits) == [kind |-> "number", val |-> digits]

\* JavaScript truthiness, as `!key`, `!phone` and `!message` test it.
Truthy(v) ==
    CASE v.kind = "undefined" -> FALSE
      [] v.kind = "string" -> Len(v.val) > 0
      [] v.kind = "number" -> v.val # <<"0">>

Digits == {"0", "1", "2", "3", "4", "5", "6", "7", "8", "9"}
IsDigit(c) == c \in Digits

\* The values of SYNC_KEY, and the request fields the gateway is given.
EmptyString == <<>>
KeyGood == <<"k", "1">>
KeyOther == <<"k", "2">>
SyncKeys == {EmptyString, KeyGood}
Keys == {JsUndefined, JsString(EmptyString), JsString(KeyGood), JsString(KeyOther)}
PhonePlain == <<"9", "1", "9", "9", "9", "9", "9", "9", "9", "9", "9", "9">>
PhoneSpaced == <<"+", "9", "1", " ", "9", "9", "9", "9", "9", " ",
                 "9", "9", "9", "9", "9">>
PhoneDashed == <<"1", "2", "-", "3", "4", "-", "5", "6", "-", "7", "8">>
Phones == {JsUndefined, JsString(PhoneDashed), JsString(PhoneSpaced),
           JsNumber(PhonePlain)}
Messages == {JsUndefined, JsString(<<"H", "i">>)}
\* sendError.message of a rejected client.sendText: a text, or none ("").
SendErrors == {"", "timeout"}
\* No request is awaiting client.sendText.
NoSend == <<"-">>

(* -------------------------- inbound messages --------------------------- *)
\* A message event of the adapter.  from holds the characters of the sender
\* address; body, caption, type and filename are "" when the field is absent
\* or empty (the handler tests them for truthiness only); timestamp is in
\* seconds since the epoch, 0 when absent.
InboundMessage(from, isGroupMsg, body, caption, type, filename, timestamp) ==
    [from |-> from, isGroupMsg |-> isGroupMsg, body |-> body,
     caption |-> caption, type |-> type, filename |-> filename,
     lat |-> "12.97", lng |-> "77.59", timestamp |-> timestamp]

SenderUser == <<"9", "1", "9", "9", "9", "9", "9", "9", "9", "9", "9", "9",
                "@", "c", ".", "u", "s">>
SenderGroup == <<"1", "2", "0", "3", "6", "3", "@", "g", ".", "u", "s">>
SenderLid == <<"1", "2", "3", "4", "5", "6", "@", "l", "i", "d">>
StatusBroadcast == <<"s", "t", "a", "t", "u", "s", "@",
                     "b", "r", "o", "a", "d", "c", "a", "s", "t">>
SentAt == 1700000000

\* The events the adapter delivers: a chat from a user, a chat in a group, a
\* status update, a chat from a sender known by a linked id and a document
\* without caption and timestamp.
InboundMessages ==
    {InboundMessage(SenderUser, FALSE, "Hi", "", "chat", "", SentAt),
     InboundMessage(SenderGroup, TRUE, "Hi", "", "chat", "", SentAt),
     InboundMessage(StatusBroadcast, FALSE, "Hi", "", "chat", "", SentAt),
     InboundMessage(SenderLid, FALSE, "Hi", "", "chat", "", SentAt),
     InboundMessage(SenderUser, FALSE, "", "", "document", "a.pdf", 0)}

\* Every combination of a present or absent body, caption and filename with
\* each type the handler has a branch for, one it has none for, and none.
Bodies == {"", "Hi"}
Captions == {"", "Cap"}
Filenames == {"", "a.pdf"}
Types == {"", "chat", "ptt", "audio", "image", "video", "document", "location",
          "sticker"}
EventMessages ==
    {InboundMessage(SenderUser, FALSE, body, caption, type, filename, SentAt) :
       body \in Bodies, caption \in Captions, type \in Types, filename \in Filenames}

\* new Date() when the handler runs, in seconds since the epoch.
Clock == {1700000100}

\* What axios.post meets: a response with a status, or no response at all
\* (network error, or the 10 s timeout).
WebhookResponse(status) == [kind |-> "response", status |-> status]
WebhookError == [kind |-> "error", status |-> 0]
WebhookOutcomes == {WebhookResponse(200), WebhookResponse(201),
                    WebhookResponse(404), WebhookResponse(500), WebhookError}

\* No axios.post was issued yet.
NoPayload == [sync_key |-> <<>>, phone |-> <<>>, message |-> <<>>,
              sender |-> "", timestamp |-> <<>>]

(* ------------------------------- Init ---------------------------------- *)
Init ==
    /\ client = NoClient
    /\ isConnected = FALSE
    /\ reconnectAttempts = 0
    /\ chromeExists \in BOOLEAN
    /\ started = FALSE
    /\ inFlight = 0
    /\ retryTimers = 0
    /\ lastDelay = 0
    /\ handlers = {}
    /\ livenessTimers = 0
    /\ probes = 0
    /\ lastState = "NONE"
    /\ terminated = FALSE
    /\ syncKey \in SyncKeys
    /\ resp = <<>>
    /\ pendingSend = NoSend
    /\ outbox = <<>>
    /\ emitted = 0
    /\ posts = <<>>
    /\ lastPayload = NoPayload
    /\ awaiting = {}
    /\ forwarded = {}
    /\ failures = {}

(* ------------------------- initializeWhatsApp -------------------------- *)
\* Variant: wppconnect.create is called whether Chrome exists or not.
StartCalledWithoutCheck ==
    inFlight' = inFlight + 1

\* initializeWhatsApp up to its await: returns when Chrome is missing, else
\* calls wppconnect.create and waits for it.
StartCalled ==
    inFlight' = IF chromeExists THEN inFlight + 1 ELSE inFlight

\* app.listen callback: the initial initializeWhatsApp().
Listen ==
    /\ ~started
    /\ started' = TRUE
    /\ StartCalled
    /\ UNCHANGED <<client, isConnected, reconnectAttempts, chromeExists,
                   retryTimers, lastDelay, handlers, livenessTimers, probes,
                   lastState, terminated>>
    /\ UNCHANGED gatewayVars
    /\ UNCHANGED relayVars

\* A retry timer fires: setTimeout(() => { initializeWhatsApp(); }, delay).
RetryTimerFires ==
    /\ retryTimers > 0
    /\ retryTimers' = retryTimers - 1
    /\ StartCalled
    /\ UNCHANGED <<client, isConnected, reconnectAttempts, chromeExists, started,
                   lastDelay, handlers, livenessTimers, probes, lastState,
                   terminated>>
    /\ UNCHANGED gatewayVars
    /\ UNCHANGED relayVars

\* wppconnect.create resolves: client is assigned the new instance, the four
\* handlers are registered on it and one more liveness interval is started.
CreateResolves ==
    /\ inFlight > 0
    /\ Cardinality(handlers) < MaxInstances
    /\ inFlight' = inFlight - 1
    /\ client' = Cardinality(handlers) + 1
    /\ handlers' = handlers \cup {Cardinality(handlers) + 1}
    /\ livenessTimers' = livenessTimers + 1
    /\ UNCHANGED <<isConnected, reconnectAttempts, chromeExists, started,
                   retryTimers, lastDelay, probes, lastState, terminated>>
    /\ UNCHANGED gatewayVars
    /\ UNCHANGED relayVars

\* The catch block's retry rule: increment first, then compare.
CatchSchedulesRetry(attempts) == attempts < MAX_RECONNECT_ATTEMPTS

\* wppconnect.create rejects: the catch block of initializeWhatsApp.
CreateRejects ==
    /\ inFlight > 0
    /\ inFlight' = inFlight - 1
    /\ reconnectAttempts' = reconnectAttempts + 1
    /\ IF CatchSchedulesRetry(reconnectAttempts')
         THEN /\ retryTimers' = retryTimers + 1
              /\ lastDelay' = RetryDelay(reconnectAttempts')
         ELSE UNCHANGED <<retryTimers, lastDelay>>
    /\ UNCHANGED <<client, isConnected, chromeExists, started, handlers,
                   livenessTimers, probes, lastState, terminated>>
    /\ UNCHANGED gatewayVars
    /\ UNCHANGED relayVars

(* --------------------------- event handlers ---------------------------- *)
\* client.onQRCode handler of instance i.
\* Variant: a QR code shown cancels the pending retry timers as well.
OnQRCodeCancelsRetry(i) ==
    /\ i \in handlers
    /\ reconnectAttempts' = 0
    /\ retryTimers' = 0
    /\ UNCHANGED <<client, isConnected, chromeExists, started, inFlight,
                   lastDelay, handlers, livenessTimers, probes, lastState,
                   terminated>>
    /\ UNCHANGED gatewayVars
    /\ UNCHANGED relayVars

OnQRCode(i) ==
    /\ i \in handlers
    /\ reconnectAttempts' = 0
    /\ UNCHANGED <<client, isConnected, chromeExists, started, inFlight,
                   retryTimers, lastDelay, handlers, livenessTimers, probes,
                   lastState, terminated>>
    /\ UNCHANGED gatewayVars
    /\ UNCHANGED relayVars

\* The disconnect branch's retry rule: compare first, then increment.
DisconnectSchedulesRetry(attempts) == attempts < MAX_RECONNECT_ATTEMPTS

\* Which signals take the "DISCONNECTED" branch of the onStateChange handler.
IsDisconnectSignal(state) == state = "DISCONNECTED"

\* client.onStateChange handler of instance i, state CONNECTED.
\* Variant: CONNECTED sets the flag and keeps the attempt counter.
OnStateConnectedKeepsCounter(i) ==
    /\ i \in handlers
    /\ lastState' = "CONNECTED"
    /\ isConnected' = TRUE
    /\ UNCHANGED <<client, reconnectAttempts, chromeExists, started, inFlight,
                   retryTimers, lastDelay, handlers, livenessTimers, probes,
                   terminated>>
    /\ UNCHANGED gatewayVars
    /\ UNCHANGED relayVars

OnStateConnected(i) ==
    /\ i \in handlers
    /\ lastState' = "CONNECTED"
    /\ isConnected' = TRUE
    /\ reconnectAttempts' = 0
    /\ UNCHANGED <<client, chromeExists, started, inFlight, retryTimers,
                   lastDelay, handlers, livenessTimers, probes, terminated>>
    /\ UNCHANGED gatewayVars
    /\ UNCHANGED relayVars

\* client.onStateChange handler of instance i, a state of the disconnect branch.
OnStateDisconnected(i, state) ==
    /\ i \in handlers
    /\ IsDisconnectSignal(state)
    /\ lastState' = state
    /\ isConnected' = FALSE
    /\ IF DisconnectSchedulesRetry(reconnectAttempts)
         THEN /\ retryTimers + inFlight < MaxPending
              /\ reconnectAttempts' = reconnectAttempts + 1
              /\ retryTimers' = retryTimers + 1
              /\ lastDelay' = RetryDelay(reconnectAttempts')
              /\ UNCHANGED terminated
         ELSE /\ terminated' = TRUE
              /\ UNCHANGED <<reconnectAttempts, retryTimers, lastDelay>>
    /\ UNCHANGED <<client, chromeExists, started, inFlight, handlers,
                   livenessTimers, probes>>
    /\ UNCHANGED gatewayVars
    /\ UNCHANGED relayVars

\* client.onStateChange handler of instance i, any other state: CONFLICT and
\* UNPAIRED are logged, the rest fall through every branch.
OnStateOther(i, state) ==
    /\ i \in handlers
    /\ state # "CONNECTED"
    /\ ~IsDisconnectSignal(state)
    /\ lastState' = state
    /\ UNCHANGED <<client, isConnected, reconnectAttempts, chromeExists, started,
                   inFlight, retryTimers, lastDelay, handlers, livenessTimers,
                   probes, terminated>>
    /\ UNCHANGED gatewayVars
    /\ UNCHANGED relayVars

\* client.onStateChange((state) => {...}) of instance i.
OnStateChangeOf(i, state) ==
    \/ state = "CONNECTED" /\ OnStateConnected(i)
    \/ OnStateDisconnected(i, state)
    \/ OnStateOther(i, state)

OnStateChange ==
    \E i \in 1..MaxInstances, state \in AdapterStates : OnStateChangeOf(i, state)

(* --------------------------- liveness check ---------------------------- *)
\* Variant: the tick probes whenever an instance exists, connected or not.
LivenessTickUnguarded ==
    /\ livenessTimers > 0
    /\ IF client # NoClient
         THEN /\ probes < MaxProbes
              /\ probes' = probes + 1
         ELSE UNCHANGED probes
    /\ UNCHANGED <<client, isConnected, reconnectAttempts, chromeExists, started,
                   inFlight, retryTimers, lastDelay, handlers, livenessTimers,
                   lastState, terminated>>
    /\ UNCHANGED gatewayVars
    /\ UNCHANGED relayVars

\* One tick of a setInterval callback, up to its await.
LivenessTick ==
    /\ livenessTimers > 0
    /\ IF client # NoClient /\ isConnected
         THEN /\ probes < MaxProbes
              /\ probes' = probes + 1
         ELSE UNCHANGED probes
    /\ UNCHANGED <<client, isConnected, reconnectAttempts, chromeExists, started,
                   inFlight, retryTimers, lastDelay, handlers, livenessTimers,
                   lastState, terminated>>
    /\ UNCHANGED gatewayVars
    /\ UNCHANGED relayVars

\* client.checkConnection() resolves.
ProbeResolves ==
    /\ probes > 0
    /\ probes' = probes - 1
    /\ UNCHANGED <<client, isConnected, reconnectAttempts, chromeExists, started,
                   inFlight, retryTimers, lastDelay, handlers, livenessTimers,
                   lastState, terminated>>
    /\ UNCHANGED gatewayVars
    /\ UNCHANGED relayVars

\* client.checkConnection() rejects: the catch block clears the flag.
ProbeRejects ==
    /\ probes > 0
    /\ probes' = probes - 1
    /\ isConnected' = FALSE
    /\ UNCHANGED <<client, reconnectAttempts, chromeExists, started, inFlight,
                   retryTimers, lastDelay, handlers, livenessTimers, lastState,
                   terminated>>
    /\ UNCHANGED gatewayVars
    /\ UNCHANGED relayVars

(* ------------------------- POST /send-message -------------------------- *)
MinPhoneDigits == 10
\* The "@c.us" suffix of a chat id.
ChatSuffix == <<"@", "c", ".", "u", "s">>

\* res.status(s).json({ok, error, phone}): a field not sent is empty.
Response(status, ok, error, phone) ==
    [status |-> status, ok |-> ok, error |-> error, phone |-> phone]

\* Variant: the key is compared with SYNC_KEY without the `!key` test.
KeyRejectedByCompareOnly(key) == key # JsString(syncKey)

\* if (!key || key !== SYNC_KEY)
KeyRejected(key) == ~Truthy(key) \/ key # JsString(syncKey)

\* if (!phone || !message)
FieldsMissing(phone, message) == ~Truthy(phone) \/ ~Truthy(message)

\* if (!client || !isConnected)
NotConnected == client = NoClient \/ ~isConnected

\* Variant: the phone is used as received.
FormattedPhoneAsReceived(phone) == phone.val

\* phone.replace(/[^0-9]/g, '')
FormattedPhone(phone) == SelectSeq(phone.val, IsDigit)

\* Variant: the length test is made on the phone as received.
PhoneTooShortAsReceived(phone) == Len(phone.val) < MinPhoneDigits

\* if (formattedPhone.length < 10)
PhoneTooShort(phone) == Len(FormattedPhone(phone)) < MinPhoneDigits

\* `${formattedPhone}@c.us`
ChatId(phone) == FormattedPhone(phone) \o ChatSuffix

\* The handler's checks in their order: the response of the first check that
\* fails, or NoResponse when the request reaches client.sendText.  A phone that
\* is not a string has no replace method: the TypeError lands in the handler's
\* outer catch.
NoResponse == Response(0, FALSE, "", <<>>)

\* Variant: the connection is checked before the presence of the fields.
GatewayVerdictConnectionFirst(key, phone, message) ==
    IF KeyRejected(key)
      THEN Response(401, FALSE, "Invalid sync key", <<>>)
    ELSE IF NotConnected
      THEN Response(503, FALSE, "WhatsApp not connected. Please scan QR code first.", <<>>)
    ELSE IF FieldsMissing(phone, message)
      THEN Response(400, FALSE, "Phone and message are required", <<>>)
    ELSE IF phone.kind # "string"
      THEN Response(500, FALSE, "phone.replace is not a function", <<>>)
    ELSE IF PhoneTooShort(phone)
      THEN Response(400, FALSE, "Invalid phone number format", <<>>)
    ELSE NoResponse

GatewayVerdict(key, phone, message) ==
    IF KeyRejected(key)
      THEN Response(401, FALSE, "Invalid sync key", <<>>)
    ELSE IF FieldsMissing(phone, message)
      THEN Response(400, FALSE, "Phone and message are required", <<>>)
    ELSE IF NotConnected
      THEN Response(503, FALSE, "WhatsApp not connected. Please scan QR code first.", <<>>)
    ELSE IF phone.kind # "string"
      THEN Response(500, FALSE, "phone.replace is not a function", <<>>)
    ELSE IF PhoneTooShort(phone)
      THEN Response(400, FALSE, "Invalid phone number format", <<>>)
    ELSE NoResponse

Accepted(key, phone, message) == GatewayVerdict(key, phone, message) = NoResponse

\* Variant: a message already sent to the same chat is not sent again.
SendCallsDeduplicated(phone, message) ==
    IF \E n \in 1..Len(outbox) :
          outbox[n].to = ChatId(phone) /\ outbox[n].body = message.val
      THEN <<>>
      ELSE <<[to |-> ChatId(phone), body |-> message.val]>>

\* The client.sendText calls of a request that passed every check.
SendCalls(phone, message) ==
    <<[to |-> ChatId(phone), body |-> message.val]>>

\* The handler from its entry to its response, or to its await of sendText
\* (formattedPhone stays in the closure that awaits).
PostSendMessage(key, phone, message) ==
    /\ pendingSend = NoSend
    /\ IF Accepted(key, phone, message)
         THEN /\ Len(outbox) < MaxSends
              /\ outbox' = outbox \o SendCalls(phone, message)
              /\ pendingSend' = FormattedPhone(phone)
              /\ resp' = <<>>
         ELSE /\ resp' = <<GatewayVerdict(key, phone, message)>>
              /\ UNCHANGED <<outbox, pendingSend>>
    /\ UNCHANGED syncKey
    /\ UNCHANGED sessionVars
    /\ UNCHANGED relayVars

\* res.json({ok: true, message: 'Message sent successfully', phone})
SentReply(formattedPhone) == Response(200, TRUE, "", formattedPhone)

\* client.sendText resolves.
SendTextResolves ==
    /\ pendingSend # NoSend
    /\ pendingSend' = NoSend
    /\ resp' = Append(resp, SentReply(pendingSend))
    /\ UNCHANGED <<syncKey, outbox>>
    /\ UNCHANGED sessionVars
    /\ UNCHANGED relayVars

\* Variant: the error's message is sent as it is, without the fallback text.
SendFailedErrorAsIs(err) == err

\* sendError.message || 'Failed to send message via WhatsApp'
SendFailedError(err) ==
    IF err # "" THEN err ELSE "Failed to send message via WhatsApp"

\* Variant: a rejected client.sendText also clears the connected flag.
SendTextRejectsDemotes(err) ==
    /\ pendingSend # NoSend
    /\ pendingSend' = NoSend
    /\ resp' = Append(resp, Response(500, FALSE, SendFailedError(err), <<>>))
    /\ isConnected' = FALSE
    /\ UNCHANGED <<syncKey, outbox>>
    /\ UNCHANGED <<client, reconnectAttempts, chromeExists, started, inFlight,
                   retryTimers, lastDelay, handlers, livenessTimers, probes,
                   lastState, terminated>>
    /\ UNCHANGED relayVars

\* client.sendText rejects with an error whose message is err.
SendTextRejects(err) ==
    /\ pendingSend # NoSend
    /\ pendingSend' = NoSend
    /\ resp' = Append(resp, Response(500, FALSE, SendFailedError(err), <<>>))
    /\ UNCHANGED <<syncKey, outbox>>
    /\ UNCHANGED sessionVars
    /\ UNCHANGED relayVars

(* ------------------------- onMessage, sendToCRM ------------------------ *)
\* Variant: only group messages are ignored.
IgnoredGroupsOnly(message) == message.isGroupMsg

\* message.isGroupMsg || message.from === 'status@broadcast'
Ignored(message) == message.isGroupMsg \/ message.from = StatusBroadcast

\* Where pat first occurs in str: the least such index, 0 when it does not.
FirstIndexOf(str, pat) ==
    LET at == {k \in 1..(Len(str) - Len(pat) + 1) :
                  SubSeq(str, k, k + Len(pat) - 1) = pat}
    IN  IF at = {} THEN 0 ELSE CHOOSE k \in at : \A j \in at : k <= j

\* str.replace(pat, ''): the first occurrence of pat removed.
RemoveFirst(str, pat) ==
    LET k == FirstIndexOf(str, pat)
    IN  IF k = 0 THEN str
        ELSE SubSeq(str, 1, k - 1) \o SubSeq(str, k + Len(pat), Len(str))

\* let phone = message.from.replace('@c.us', '')
ExtractPhone(message) == RemoveFirst(message.from, ChatSuffix)

\* a || b on texts
OrElse(a, b) == IF a # "" THEN a ELSE b

\* Variant: the caption is preferred to the body.
MessageTextCaptionFirst(message) ==
    IF message.caption # "" THEN <<message.caption>>
    ELSE IF message.body # "" THEN <<message.body>>
    ELSE IF message.type \in {"ptt", "audio"} THEN <<"[Audio Message]">>
    ELSE IF message.type \in {"image", "video"} THEN <<"[Media Message]">>
    ELSE IF message.type = "document"
      THEN <<"[Document: ", OrElse(message.filename, "File"), "]">>
    ELSE IF message.type = "location"
      THEN <<"[Location: ", message.lat, ", ", message.lng, "]">>
    ELSE <<"[", OrElse(message.type, "Unsupported"), " Message]">>

\* The text forwarded, as the parts it is concatenated from.
MessageText(message) ==
    IF message.body # "" THEN <<message.body>>
    ELSE IF message.caption # "" THEN <<message.caption>>
    ELSE IF message.type \in {"ptt", "audio"} THEN <<"[Audio Message]">>
    ELSE IF message.type \in {"image", "video"}
      THEN <<OrElse(message.caption, "[Media Message]")>>
    ELSE IF message.type = "document"
      THEN IF message.caption # "" THEN <<message.caption>>
           ELSE <<"[Document: ", OrElse(message.filename, "File"), "]">>
    ELSE IF message.type = "location"
      THEN <<"[Location: ", message.lat, ", ", message.lng, "]">>
    ELSE <<"[", OrElse(message.type, "Unsupported"), " Message]">>

\* new Date(seconds * 1000).toISOString().slice(0, 19).replace('T', ' '): the
\* UTC year, month, day, hour, minute and second, which the text shows
\* zero-padded as YYYY-MM-DD HH:MM:SS.
FormatTime(seconds) ==
    LET days == seconds \div 86400
        secs == seconds % 86400
        z    == days + 719468
        era  == z \div 146097
        doe  == z - era * 146097
        yoe  == (doe - doe \div 1460 + doe \div 36524 - doe \div 146096) \div 365
        doy  == doe - (365 * yoe + yoe \div 4 - yoe \div 100)
        mp   == (5 * doy + 2) \div 153
        d    == doy - (153 * mp + 2) \div 5 + 1
        m    == IF mp < 10 THEN mp + 3 ELSE mp - 9
        y    == yoe + era * 400 + (IF m <= 2 THEN 1 ELSE 0)
    IN  <<y, m, d, secs \div 3600, (secs % 3600) \div 60, secs % 60>>

\* message.timestamp ? format(message.timestamp) : format(now)
Timestamp(message, now) ==
    IF message.timestamp # 0 THEN FormatTime(message.timestamp) ELSE FormatTime(now)

\* The object handed to sendToCRM.
RelayPayload(message, now) ==
    [sync_key |-> syncKey, phone |-> ExtractPhone(message),
     message |-> MessageText(message), sender |-> "customer",
     timestamp |-> Timestamp(message, now)]

\* Variant: the POST of a new event is put before the POSTs issued so far.
OnMessagePostsNewestFirst(i, message, now) ==
    /\ i \in handlers
    /\ emitted < MaxEvents
    /\ emitted' = emitted + 1
    /\ IF Ignored(message)
         THEN UNCHANGED <<posts, lastPayload, awaiting>>
         ELSE /\ posts' = <<emitted'>> \o posts
              /\ lastPayload' = RelayPayload(message, now)
              /\ awaiting' = awaiting \cup {emitted'}
    /\ UNCHANGED <<forwarded, failures>>
    /\ UNCHANGED sessionVars
    /\ UNCHANGED gatewayVars

\* onMessage up to the await inside sendToCRM: an ignored event returns, any
\* other has its payload built and axios.post issued.
OnMessage(i, message, now) ==
    /\ i \in handlers
    /\ emitted < MaxEvents
    /\ emitted' = emitted + 1
    /\ IF Ignored(message)
         THEN UNCHANGED <<posts, lastPayload, awaiting>>
         ELSE /\ posts' = Append(posts, emitted')
              /\ lastPayload' = RelayPayload(message, now)
              /\ awaiting' = awaiting \cup {emitted'}
    /\ UNCHANGED <<forwarded, failures>>
    /\ UNCHANGED sessionVars
    /\ UNCHANGED gatewayVars

\* validateStatus: (status) => status < 500, on a response.
AxiosResolves(outcome) == outcome.kind = "response" /\ outcome.status < 500

\* Variant: every response axios resolves with counts as forwarded.
SendToCRMResultAnyResponse(outcome) == AxiosResolves(outcome)

\* What sendToCRM returns: true for status 200; false for any other response
\* and, from its catch block, for a rejected axios.post.
SendToCRMResult(outcome) ==
    IF AxiosResolves(outcome) THEN outcome.status = 200 ELSE FALSE

\* axios.post of event e settles and onMessage runs to its end.
WebhookSettles(e, outcome) ==
    /\ e \in awaiting
    /\ awaiting' = awaiting \ {e}
    /\ IF SendToCRMResult(outcome)
         THEN /\ forwarded' = forwarded \cup {e}
              /\ UNCHANGED failures
         ELSE /\ failures' = failures \cup {e}
              /\ UNCHANGED forwarded
    /\ UNCHANGED <<emitted, posts, lastPayload>>
    /\ UNCHANGED sessionVars
    /\ UNCHANGED gatewayVars

(* ---------------------- GET /status, GET /health ----------------------- *)
\* The fields of the GET /status body that reflect the session.
StatusReport == [connected |-> isConnected, reconnectAttempts |-> reconnectAttempts]

\* The fields of the GET /health body that reflect the session.
HealthReport == [status |-> "ok", connected |-> isConnected]

\* The field of the GET /qr body that reflects the session.
QrReport == [connected |-> isConnected]

\* The field of the GET / body that reflects the session.
RootReport == [status |-> IF isConnected THEN "connected" ELSE "disconnected"]

\* A GET route answers with its report.
Get(report) ==
    /\ pendingSend = NoSend
    /\ resp' = <<report>>
    /\ UNCHANGED <<syncKey, pendingSend, outbox>>
    /\ UNCHANGED sessionVars
    /\ UNCHANGED relayVars

GetStatus == Get(StatusReport)
GetHealth == Get(HealthReport)
GetQr == Get(QrReport)
GetRoot == Get(RootReport)

(* --------------------------- specifications ---------------------------- *)
\* The session supervisor and the liveness check.
Next ==
    \/ Listen
    \/ RetryTimerFires
    \/ CreateResolves
    \/ CreateRejects
    \/ \E i \in 1..MaxInstances : OnQRCode(i)
    \/ OnStateChange
    \/ LivenessTick
    \/ ProbeResolves
    \/ ProbeRejects

Spec == Init /\ [][Next]_vars

\* The supervisor with its timers and promises running to completion: a
\* pending setTimeout fires, a pending wppconnect.create or checkConnection
\* settles, a running interval ticks.  The adapter's signals are left to the
\* adapter.
SpecFair ==
    /\ Init /\ [][Next]_vars
    /\ WF_vars(RetryTimerFires)
    /\ WF_vars(CreateResolves \/ CreateRejects)
    /\ WF_vars(LivenessTick)
    /\ WF_vars(ProbeResolves \/ ProbeRejects)

\* The gateway beside the supervisor, the session followed while the attempt
\* counter and the pending initializeWhatsApp calls stay within
\* MaxAttemptsFollowed.
Followed ==
    /\ reconnectAttempts' <= MaxAttemptsFollowed
    /\ inFlight' + retryTimers' <= MaxAttemptsFollowed

NextGateway ==
    \/ Listen /\ Followed
    \/ RetryTimerFires /\ Followed
    \/ CreateResolves /\ Followed
    \/ CreateRejects /\ Followed
    \/ \E i \in 1..MaxInstances : OnQRCode(i) /\ Followed
    \/ OnStateChange /\ Followed
    \/ LivenessTick /\ Followed
    \/ ProbeResolves /\ Followed
    \/ ProbeRejects /\ Followed
    \/ \E key \in Keys, phone \in Phones, message \in Messages :
           PostSendMessage(key, phone, message)
    \/ SendTextResolves
    \/ \E err \in SendErrors : SendTextRejects(err)

SpecGateway == Init /\ [][NextGateway]_vars

\* The inbound relay beside initializeWhatsApp and the state signals (the
\* relay reads no session variable; its handler runs on every instance that
\* has one registered), the session followed as for the gateway.
NextRelay ==
    \/ Listen /\ Followed
    \/ RetryTimerFires /\ Followed
    \/ CreateResolves /\ Followed
    \/ CreateRejects /\ Followed
    \/ OnStateChange /\ Followed
    \/ \E i \in 1..MaxInstances, message \in InboundMessages, now \in Clock :
           OnMessage(i, message, now)
    \/ \E e \in 1..MaxEvents, outcome \in WebhookOutcomes : WebhookSettles(e, outcome)

SpecRelay == Init /\ [][NextRelay]_vars

\* The inbound relay of one instance, given every combination of the fields
\* the forwarded text is chosen from.
NextText ==
    \/ Listen
    \/ CreateResolves
    \/ \E i \in 1..MaxInstances, message \in EventMessages, now \in Clock :
           OnMessage(i, message, now)
    \/ \E e \in 1..MaxEvents, outcome \in WebhookOutcomes : WebhookSettles(e, outcome)

SpecText == Init /\ [][NextText]_vars

\* Every route and the inbound relay beside initializeWhatsApp and the state
\* signals, the session followed as for the gateway.
NextHandlers ==
    \/ Listen /\ Followed
    \/ CreateResolves /\ Followed
    \/ OnStateChange /\ Followed
    \/ \E key \in Keys, phone \in Phones, message \in Messages :
           PostSendMessage(key, phone, message)
    \/ SendTextResolves
    \/ \E err \in SendErrors : SendTextRejects(err)
    \/ GetStatus
    \/ GetHealth
    \/ GetQr
    \/ GetRoot
    \/ \E i \in 1..MaxInstances, message \in InboundMessages, now \in Clock :
           OnMessage(i, message, now)
    \/ \E e \in 1..MaxEvents, outcome \in WebhookOutcomes : WebhookSettles(e, outcome)

SpecHandlers == Init /\ [][NextHandlers]_vars

(* ====================== properties of the supervisor ================== *)

\* C1: at most one initializeWhatsApp call is in flight or waiting in a retry
\* timer, in every reachable state.
C1_AtMostOneStartPending == inFlight + retryTimers <= 1

\* C2: the reconnect-attempt counter never exceeds MAX_RECONNECT_ATTEMPTS.
C2_CounterWithinMax == reconnectAttempts <= MAX_RECONNECT_ATTEMPTS

\* The signals the specification treats as causes of a disconnect.
DisconnectCauses == {"DISCONNECTED", "CONFLICT", "UNPAIRED"}

\* C8: each of DISCONNECTED, CONFLICT and UNPAIRED clears the connected flag
\* and, with the counter below the maximum, increments the counter by one and
\* schedules exactly one retry of initializeWhatsApp.
C8_DisconnectCausesReconnect ==
    [][\A i \in 1..MaxInstances, state \in DisconnectCauses :
          OnStateChangeOf(i, state) =>
            /\ isConnected' = FALSE
            /\ reconnectAttempts < MAX_RECONNECT_ATTEMPTS =>
                 /\ reconnectAttempts' = reconnectAttempts + 1
                 /\ retryTimers' = retryTimers + 1]_vars

\* C9: once a DISCONNECTED was handled with the attempts exhausted, no step
\* calls initializeWhatsApp again and none sets the connected flag.
C9_TerminatedForGood ==
    [][terminated => /\ ~RetryTimerFires
                     /\ isConnected' = FALSE]_vars

\* C10: a rejected wppconnect.create follows the disconnect rule: with the
\* counter below the maximum before the failure, the counter is incremented by
\* one and exactly one retry is scheduled, with delay min(counter * 5s, 30s).
C10_StartFailureLikeDisconnect ==
    [][(CreateRejects /\ reconnectAttempts < MAX_RECONNECT_ATTEMPTS) =>
          /\ reconnectAttempts' = reconnectAttempts + 1
          /\ retryTimers' = retryTimers + 1
          /\ lastDelay' = Min(reconnectAttempts' * 5000, 30000)]_vars

\* C11: a CONNECTED signal sets the connected flag and resets the attempt
\* counter to 0, whatever the counter was and whether or not a retry is
\* pending.
C11_ConnectedResetsCounter ==
    [][\A i \in 1..MaxInstances :
          OnStateChangeOf(i, "CONNECTED") =>
            /\ isConnected' = TRUE
            /\ lastState' = "CONNECTED"
            /\ reconnectAttempts' = 0]_vars

\* C11 witness: CONNECTED was the last signal, handled while a retry timer was
\* pending; the flag is set and the counter is 0.
C11_Witness ==
    /\ lastState = "CONNECTED"
    /\ isConnected
    /\ reconnectAttempts = 0
    /\ retryTimers > 0

\* C12: a QR code shown resets the attempt counter to 0 in every state and
\* changes neither the connected flag, nor the last state signalled, nor the
\* pending retries and initializeWhatsApp calls.
C12_QRResetsCounterOnly ==
    [][\A i \in 1..MaxInstances :
          OnQRCode(i) =>
            /\ reconnectAttempts' = 0
            /\ UNCHANGED <<isConnected, lastState, retryTimers, inFlight, client>>]_vars

\* C12 witness: after a DISCONNECTED scheduled a retry, a QR code reset the
\* counter while the retry timer is still pending.
C12_Witness ==
    /\ lastState = "DISCONNECTED"
    /\ ~isConnected
    /\ reconnectAttempts = 0
    /\ retryTimers > 0

\* C13: at most one adapter instance has its handlers registered, in every
\* reachable state.
C13_OneSessionLive == Cardinality(handlers) <= 1

\* C14: the connected flag GET /status and GET /health report is false before
\* the first CONNECTED signal and after a DISCONNECTED, CONFLICT or UNPAIRED
\* signal.
C14_FlagFollowsLastSignal ==
    /\ HealthReport.connected = StatusReport.connected
    /\ lastState \in {"NONE"} \cup DisconnectCauses => ~StatusReport.connected

\* The liveness check cleared the flag after the last state signal.
Demoted == lastState = "CONNECTED" /\ ~isConnected

\* C17: once a failed probe has cleared the flag with the counter below the
\* maximum, an initializeWhatsApp call is eventually pending (in a retry timer
\* or in flight).
C17_ProbeFailureLeadsToRetry ==
    (Demoted /\ reconnectAttempts < MAX_RECONNECT_ATTEMPTS) ~> (inFlight + retryTimers > 0)

DelayTable == <<5000, 10000, 15000, 20000, 25000, 30000, 30000, 30000, 30000, 30000>>

\* C20: the delay of attempt n is min(n * 5s, 30s): 5, 10, 15, 20, 25, 30, 30,
\* 30, 30, 30 seconds for n = 1..10, non-decreasing and at most 30s; every
\* step that schedules a retry, after a DISCONNECTED or after a rejected
\* wppconnect.create, increments the counter and uses the delay of the
\* incremented counter.
C20_DelayOfIncrementedCounter ==
    [][/\ \A n \in 1..MAX_RECONNECT_ATTEMPTS :
            /\ RetryDelay(n) = DelayTable[n]
            /\ RetryDelay(n) <= 30000
            /\ n > 1 => RetryDelay(n - 1) <= RetryDelay(n)
       /\ retryTimers' > retryTimers =>
            /\ reconnectAttempts' = reconnectAttempts + 1
            /\ lastDelay' = DelayTable[reconnectAttempts']
      ]_vars

\* C20 witness: the tenth attempt was scheduled, with the capped delay.
C20_Witness ==
    /\ reconnectAttempts = 10
    /\ retryTimers > 0
    /\ lastDelay = 30000

\* C26: a state signal or a QR code coming from an instance that is not the
\* one held in client changes neither the connected flag nor the attempt
\* counter.
C26_SupersededInstanceIgnored ==
    [][\A i \in 1..MaxInstances :
          (i # client
             /\ (OnQRCode(i) \/ \E state \in AdapterStates : OnStateChangeOf(i, state))) =>
            UNCHANGED <<isConnected, reconnectAttempts>>]_vars

\* C27: at most one liveness interval is running, in every reachable state.
C27_OneLivenessTimer == livenessTimers <= 1

(* ======================= properties of the gateway ==================== *)

\* The digits of a string, in order.
RECURSIVE DigitsOnly(_)
DigitsOnly(chars) ==
    IF chars = <<>> THEN <<>>
    ELSE (IF Head(chars) \in Digits THEN <<Head(chars)>> ELSE <<>>)
           \o DigitsOnly(Tail(chars))

\* A field of the request is missing: absent, or the empty string.
Missing(v) == v = JsUndefined \/ v = JsString(EmptyString)

\* The key is the process-wide shared key (which is then not empty).
ValidKey(key) == key.kind = "string" /\ key.val = syncKey /\ syncKey # EmptyString

\* The phone is a string with fewer than / at least 10 digits.
ShortPhone(phone) == phone.kind = "string" /\ Len(DigitsOnly(phone.val)) < 10
LongPhone(phone) == phone.kind = "string" /\ Len(DigitsOnly(phone.val)) >= 10

\* A step that changes the gateway's state: only the three gateway actions
\* take one.
GatewayStep == gatewayVars' # gatewayVars

\* The request is answered at once with this status, ok:false, and no
\* client.sendText call is made for it.
RejectedWith(status) ==
    /\ Len(resp') = 1
    /\ resp'[1].status = status
    /\ resp'[1].ok = FALSE
    /\ outbox' = outbox
    /\ pendingSend' = NoSend

\* C3: in every session state other than CONNECTED a request with a valid key,
\* a phone of at least 10 digits and a message is rejected with 503 and no
\* client.sendText call.
C3_NotConnectedRejects ==
    [][GatewayStep =>
       \A key \in Keys, phone \in Phones, message \in Messages :
          ( /\ lastState # "CONNECTED"
            /\ ValidKey(key) /\ LongPhone(phone) /\ ~Missing(message)
            /\ PostSendMessage(key, phone, message) )
          => RejectedWith(503)]_vars

\* C4: a request whose key is missing, empty or different from SYNC_KEY is
\* rejected with 401 and no client.sendText call, whatever its phone and
\* message and whatever the connection state; also when SYNC_KEY is empty.
C4_UnauthorizedFirst ==
    [][GatewayStep =>
       \A key \in Keys, phone \in Phones, message \in Messages :
          ( /\ Missing(key) \/ key.val # syncKey
            /\ PostSendMessage(key, phone, message) )
          => RejectedWith(401)]_vars

\* C4 witness: a 401 was answered while SYNC_KEY is empty and the session is
\* connected.
C4_Witness ==
    /\ resp = <<Response(401, FALSE, "Invalid sync key", <<>>)>>
    /\ syncKey = EmptyString
    /\ isConnected /\ client # NoClient

\* C5 as claimed: with a valid key the request is rejected with 400 whenever
\* the phone or the message is missing or the phone has fewer than 10 digits.
C5_InvalidRequestAlways ==
    [][GatewayStep =>
       \A key \in Keys, phone \in Phones, message \in Messages :
          ( /\ ValidKey(key)
            /\ Missing(phone) \/ Missing(message) \/ ShortPhone(phone)
            /\ PostSendMessage(key, phone, message) )
          => RejectedWith(400)]_vars

\* C5 amended: with a valid key the request is rejected with 400 whenever the
\* phone or the message is missing, and, while the session is connected,
\* whenever the phone has fewer than 10 digits (while it is not connected the
\* short phone is answered 503); no client.sendText call is made.
C5_InvalidRequest ==
    [][GatewayStep =>
       \A key \in Keys, phone \in Phones, message \in Messages :
          ( /\ ValidKey(key)
            /\ Missing(phone) \/ Missing(message) \/ ShortPhone(phone)
            /\ PostSendMessage(key, phone, message) )
          => IF Missing(phone) \/ Missing(message) THEN RejectedWith(400)
             ELSE IF client # NoClient /\ isConnected THEN RejectedWith(400)
             ELSE RejectedWith(503)]_vars

\* C5 witness: a short phone was answered 400 "Invalid phone number format".
C5_Witness ==
    resp = <<Response(400, FALSE, "Invalid phone number format", <<>>)>>

\* Every gateway check passes for the request.
AllChecksPass(key, phone, message) ==
    /\ ValidKey(key) /\ LongPhone(phone) /\ ~Missing(message)
    /\ client # NoClient /\ isConnected

\* A request that passed every check waits for client.sendText without a
\* response, and is answered by exactly one response when sendText settles.
SendSettles(reply) ==
    /\ resp = <<>>
    /\ resp' = <<reply>>
    /\ pendingSend' = NoSend

\* C6 as claimed: when every check passes, a resolved sendText is answered
\* 200, ok:true with the normalized phone, and a rejected one 500, ok:false
\* with the adapter's error message; one response in either case.
C6_SendDecidesOutcome ==
    [][GatewayStep =>
       /\ \A key \in Keys, phone \in Phones, message \in Messages :
            (AllChecksPass(key, phone, message)
               /\ PostSendMessage(key, phone, message))
            => resp' = <<>> /\ pendingSend' = DigitsOnly(phone.val)
       /\ SendTextResolves => SendSettles(Response(200, TRUE, "", pendingSend))
       /\ \A err \in SendErrors :
            SendTextRejects(err) => SendSettles(Response(500, FALSE, err, <<>>))
      ]_vars

\* C6 amended: as claimed, but the 500 response carries the adapter's error
\* message only when the error has one, and the text "Failed to send message
\* via WhatsApp" otherwise.
C6_SendDecidesOutcomeOrFallback ==
    [][GatewayStep =>
       /\ \A key \in Keys, phone \in Phones, message \in Messages :
            (AllChecksPass(key, phone, message)
               /\ PostSendMessage(key, phone, message))
            => resp' = <<>> /\ pendingSend' = DigitsOnly(phone.val)
       /\ SendTextResolves => SendSettles(Response(200, TRUE, "", pendingSend))
       /\ \A err \in SendErrors :
            SendTextRejects(err) =>
              SendSettles(Response(500, FALSE,
                  IF err = "" THEN "Failed to send message via WhatsApp" ELSE err,
                  <<>>))
      ]_vars

\* C6 witness: a rejected sendText was answered 500 with the fallback text
\* after the session had changed state.
C6_Witness ==
    /\ resp = <<Response(500, FALSE, "Failed to send message via WhatsApp", <<>>)>>
    /\ outbox # <<>>
    /\ ~isConnected

\* C7: a request that passes every check makes exactly one client.sendText
\* call, any other request none, and the settling of sendText none: n
\* identical accepted requests leave n calls in the outbox.
C7_OneSendPerAcceptedRequest ==
    [][GatewayStep =>
       /\ \A key \in Keys, phone \in Phones, message \in Messages :
            PostSendMessage(key, phone, message) =>
              IF AllChecksPass(key, phone, message)
                THEN outbox' = Append(outbox,
                        [to |-> DigitsOnly(phone.val) \o <<"@", "c", ".", "u", "s">>,
                         body |-> message.val])
                ELSE outbox' = outbox
       /\ SendTextResolves => outbox' = outbox
       /\ \A err \in SendErrors : SendTextRejects(err) => outbox' = outbox
      ]_vars

\* C7 witness: the same request was accepted twice and sent twice.
C7_Witness ==
    /\ Len(outbox) = 2
    /\ outbox[1] = outbox[2]
    /\ pendingSend = NoSend
    /\ Len(resp) = 1 /\ resp[1].status = 200

\* The phone '+91 99999 99999', its digits, and the chat id of that number.
PhoneAsTyped == <<"+", "9", "1", " ", "9", "9", "9", "9", "9", " ",
                  "9", "9", "9", "9", "9">>
PhoneDigits == <<"9", "1", "9", "9", "9", "9", "9", "9", "9", "9", "9", "9">>
PhoneChatId == <<"9", "1", "9", "9", "9", "9", "9", "9", "9", "9", "9", "9",
                 "@", "c", ".", "u", "s">>

\* C21: a request that passes every check calls client.sendText with the
\* digits of the phone followed by '@c.us' and with the message as received,
\* and a resolved sendText answers with those digits as the phone; the phone
\* '+91 99999 99999' is sent to '919999999999@c.us'.
C21_NormalizedDestination ==
    [][GatewayStep =>
       /\ \A key \in Keys, phone \in Phones, message \in Messages :
            (AllChecksPass(key, phone, message)
               /\ PostSendMessage(key, phone, message)) =>
              /\ outbox'[Len(outbox')].to = DigitsOnly(phone.val) \o <<"@", "c", ".", "u", "s">>
              /\ outbox'[Len(outbox')].body = message.val
              /\ pendingSend' = DigitsOnly(phone.val)
              /\ phone.val = PhoneAsTyped => outbox'[Len(outbox')].to = PhoneChatId
       /\ SendTextResolves =>
            /\ resp'[Len(resp')].status = 200
            /\ resp'[Len(resp')].phone = pendingSend
      ]_vars

\* C21 witness: '+91 99999 99999' was sent to '919999999999@c.us' and
\* '919999999999' was returned as the phone.
C21_Witness ==
    /\ Len(outbox) = 1
    /\ outbox[1].to = PhoneChatId
    /\ outbox[1].body = <<"H", "i">>
    /\ resp = <<Response(200, TRUE, "", PhoneDigits)>>

\* C25: the checks of a request are applied in the order key, presence of
\* phone and message, connection, digit count, and the first that fails
\* decides the response: 401, 400, 503, 400; a request that passes them all is
\* sent.  A short phone with a valid key and a message gets 503 while not
\* connected and 400 while connected.
C25_ChecksInOrder ==
    [][GatewayStep =>
       \A key \in Keys, phone \in Phones, message \in Messages :
          PostSendMessage(key, phone, message) =>
            IF ~ValidKey(key)
              THEN RejectedWith(401) /\ resp'[1].error = "Invalid sync key"
            ELSE IF Missing(phone) \/ Missing(message)
              THEN RejectedWith(400) /\ resp'[1].error = "Phone and message are required"
            ELSE IF client = NoClient \/ ~isConnected
              THEN RejectedWith(503)
            ELSE IF ShortPhone(phone)
              THEN RejectedWith(400) /\ resp'[1].error = "Invalid phone number format"
            ELSE IF LongPhone(phone)
              THEN Len(outbox') = Len(outbox) + 1 /\ resp' = <<>>
            ELSE TRUE
      ]_vars

\* C25 witness: a request was answered 400 for its missing fields while the
\* session was not connected.
C25_Witness ==
    /\ resp = <<Response(400, FALSE, "Phone and message are required", <<>>)>>
    /\ ~isConnected
    /\ syncKey # EmptyString

\* C28: with Chrome missing, initializeWhatsApp returns without calling
\* wppconnect.create, changes neither the flag nor the counter and schedules
\* no retry; after the initial call none is pending or in flight, and every
\* request with a valid key, a phone and a message is answered 503.
C28_MissingChrome ==
    [][~chromeExists =>
       /\ (Listen \/ RetryTimerFires) =>
            /\ UNCHANGED <<client, isConnected, reconnectAttempts, inFlight>>
            /\ retryTimers' <= retryTimers
       /\ started =>
            /\ inFlight' = 0 /\ retryTimers' = 0
            /\ client' = NoClient /\ isConnected' = FALSE
       /\ \A key \in Keys, phone \in Phones, message \in Messages :
            (ValidKey(key) /\ ~Missing(phone) /\ ~Missing(message)
               /\ PostSendMessage(key, phone, message)) => RejectedWith(503)
      ]_vars

\* C28 witness: Chrome is missing, the initial call has returned and a
\* request with a valid key was answered 503.
C28_Witness ==
    /\ ~chromeExists
    /\ started
    /\ client = NoClient
    /\ syncKey # EmptyString
    /\ Len(resp) = 1 /\ resp[1].status = 503

(* ==================== properties of the inbound relay ================= *)

\* A step of the relay.
RelayStep == relayVars' # relayVars

\* The event comes from a group or from the status broadcast.
FromGroupOrBroadcast(message) ==
    \/ message.isGroupMsg
    \/ message.from = <<"s", "t", "a", "t", "u", "s", "@",
                        "b", "r", "o", "a", "d", "c", "a", "s", "t">>

\* C15: an inbound event from a group or from the status broadcast issues no
\* webhook POST.
C15_GroupAndBroadcastDropped ==
    [][RelayStep =>
       \A i \in 1..MaxInstances, message \in InboundMessages, now \in Clock :
          (FromGroupOrBroadcast(message) /\ OnMessage(i, message, now)) =>
            /\ posts' = posts
            /\ awaiting' = awaiting
            /\ lastPayload' = lastPayload]_vars

\* C15 witness: every event handled so far was dropped, and no POST was issued.
C15_Witness ==
    /\ emitted = MaxEvents
    /\ posts = <<>>
    /\ lastPayload = NoPayload
    /\ awaiting = {}

\* The webhook did not answer with a 2xx status.
NotDelivered(outcome) ==
    outcome.kind = "error" \/ outcome.status < 200 \/ outcome.status > 299

\* C16: an event is POSTed at most once; when its POST meets a non-2xx status,
\* a network error or a timeout, the event is logged as a failure, the handler
\* ends, no POST is issued again and the session is left as it was.
C16_OnePostFailureLogged ==
    [][RelayStep =>
       /\ \A j, k \in 1..Len(posts') : posts'[j] = posts'[k] => j = k
       /\ Len(posts') <= Len(posts) + 1
       /\ UNCHANGED sessionVars
       /\ \A e \in 1..MaxEvents, outcome \in WebhookOutcomes :
            WebhookSettles(e, outcome) =>
              /\ posts' = posts
              /\ awaiting' = awaiting \ {e}
              /\ NotDelivered(outcome) => e \in failures' /\ e \notin forwarded'
      ]_vars

\* C16 witness: two events were POSTed once each and both deliveries failed.
C16_Witness ==
    /\ posts = <<1, 2>>
    /\ failures = {1, 2}
    /\ forwarded = {}
    /\ awaiting = {}

\* C19: the payload of every POST has a digits-only phone, the shared key as
\* sync_key and 'customer' as sender.
C19_PayloadAddressing ==
    lastPayload # NoPayload =>
      /\ lastPayload.phone # <<>>
      /\ lastPayload.phone = DigitsOnly(lastPayload.phone)
      /\ lastPayload.sync_key = syncKey
      /\ lastPayload.sender = "customer"

\* The field is present and not empty.
Has(field) == field # ""

\* The text the precedence rule gives for an event.
ExpectedBody(message) ==
    CASE Has(message.body) -> <<message.body>>
      [] ~Has(message.body) /\ Has(message.caption) -> <<message.caption>>
      [] ~Has(message.body) /\ ~Has(message.caption)
           /\ message.type \in {"ptt", "audio"} -> <<"[Audio Message]">>
      [] ~Has(message.body) /\ ~Has(message.caption)
           /\ message.type \in {"image", "video"} -> <<"[Media Message]">>
      [] ~Has(message.body) /\ ~Has(message.caption)
           /\ message.type = "document" /\ Has(message.filename) ->
             <<"[Document: ", message.filename, "]">>
      [] ~Has(message.body) /\ ~Has(message.caption)
           /\ message.type = "document" /\ ~Has(message.filename) ->
             <<"[Document: ", "File", "]">>
      [] ~Has(message.body) /\ ~Has(message.caption)
           /\ message.type = "location" ->
             <<"[Location: ", message.lat, ", ", message.lng, "]">>
      [] ~Has(message.body) /\ ~Has(message.caption) /\ Has(message.type)
           /\ message.type \notin {"ptt", "audio", "image", "video",
                                   "document", "location"} ->
             <<"[", message.type, " Message]">>
      [] ~Has(message.body) /\ ~Has(message.caption) /\ ~Has(message.type) ->
             <<"[", "Unsupported", " Message]">>

\* C22: the text POSTed for an event is the one the precedence rule gives
\* (body, caption, audio, media, document, location, type), for every
\* combination of present and absent body, caption, filename and type.
C22_BodyPrecedence ==
    [][RelayStep =>
       \A i \in 1..MaxInstances, message \in EventMessages, now \in Clock :
          OnMessage(i, message, now) =>
            lastPayload'.message = ExpectedBody(message)]_vars

\* C22 witness: a document without body, caption and filename was POSTed as
\* '[Document: File]'.
C22_Witness ==
    /\ posts # <<>>
    /\ lastPayload.message = <<"[Document: ", "File", "]">>

\* C23: the POSTs are issued in the order of the events: each event that is
\* not dropped has its POST issued at once, after those of the earlier events
\* and whether or not these have settled; a settling POST issues none.
C23_PostsInEventOrder ==
    [][RelayStep =>
       /\ \A j, k \in 1..Len(posts') : j < k => posts'[j] < posts'[k]
       /\ \A i \in 1..MaxInstances, message \in InboundMessages, now \in Clock :
            (~FromGroupOrBroadcast(message) /\ OnMessage(i, message, now)) =>
              /\ posts' = Append(posts, emitted + 1)
              /\ awaiting' = awaiting \cup {emitted + 1}
       /\ \A e \in 1..MaxEvents, outcome \in WebhookOutcomes :
            WebhookSettles(e, outcome) => posts' = posts
      ]_vars

\* C23 witness: the second event was POSTed while the POST of the first was
\* still awaiting its response.
C23_Witness ==
    /\ posts = <<1, 2>>
    /\ awaiting = {1, 2}

(* ================ properties of the handlers together ================= *)

\* A step of a route or of the inbound relay: these, and only these, write a
\* response, call client.sendText or axios.post, or record a delivery.
HandlerStep == gatewayVars' # gatewayVars \/ relayVars' # relayVars

\* C24: POST /send-message with any outcome, GET /status, GET /health,
\* GET /qr, GET / and an inbound message event with any outcome leave the
\* adapter instance, the connected flag and the attempt counter unchanged.
C24_HandlersLeaveSession ==
    [][HandlerStep => UNCHANGED <<client, isConnected, reconnectAttempts>>]_vars

\* C24 witness: a send failed and a webhook delivery failed, and the session
\* is still connected on the same instance.
C24_Witness ==
    /\ resp = <<Response(500, FALSE, "timeout", <<>>)>>
    /\ outbox # <<>>
    /\ failures # {}
    /\ isConnected /\ client # NoClient
    /\ lastState = "CONNECTED"

====
